---- MODULE Spec2Model ----
(***************************************************************************)
(* A model of graph_compiler: the IR optimizer (variable elision and       *)
(* dead-code elimination), Graph construction with Kahn scheduling, the    *)
(* compiler and the per-call executor.                                     *)
(*                                                                         *)
(* Wire strings ("node" or "node:port") are sequences of tokens with ":"   *)
(* as a token of its own: "split:double" is <<"split", ":", "double">>.    *)
(* Python's None is the empty tuple, a present value v is <<v>>.           *)
(***************************************************************************)
EXTENDS Integers, Sequences, FiniteSets, TLC

VARIABLES
    callers,         \* the execute() calls of concurrent call sites, one frame each
    authored,        \* history: the IR as the caller wrote it
    json_data,       \* the caller's IR dict, as passed to Graph(json_data)
    pc,              \* "ir", "built", "build_error", "compiled", "compile_error"
    graph,           \* the Graph object, None before it is built
    compiled,        \* the CompiledGraph, None before compile()
    frame,           \* the locals of the current (or last) calculator() call
    earlier_missing  \* history: an earlier call lacked a declared input uid

vars == <<callers, authored, json_data, pc, graph, compiled, frame, earlier_missing>>

----------------------------------------------------------------------------
(* Generic helpers                                                          *)

Range(s) == {s[i] : i \in 1..Len(s)}

RECURSIVE Flatten(_)
Flatten(ss) == IF ss = <<>> THEN <<>> ELSE Head(ss) \o Flatten(Tail(ss))

RECURSIVE SetToSeq(_)
SetToSeq(S) == IF S = {} THEN <<>>
               ELSE LET x == CHOOSE y \in S : TRUE IN <<x>> \o SetToSeq(S \ {x})

None == <<>>
Some(v) == <<v>>

----------------------------------------------------------------------------
(* graph.py: wire strings                                                   *)

HasColon(s) == \E i \in 1..Len(s) : s[i] = ":"

\* str.split(':')[0]: the text before the first colon
extract_node_id_from_source(source) ==
    IF HasColon(source)
    THEN IF source[1] = ":" THEN "" ELSE source[1]
    ELSE source[1]

\* str.split(':', 1): (node id, rest after the first colon) or (id, None)
split_port_id(port_id) ==
    IF HasColon(port_id)
    THEN IF port_id[1] = ":"
         THEN <<"", Some(SubSeq(port_id, 2, Len(port_id)))>>
         ELSE <<port_id[1], Some(SubSeq(port_id, 3, Len(port_id)))>>
    ELSE <<port_id[1], None>>

\* f"{node_id}:{port_name}"
get_port_id(node_id, port_name) == <<node_id, ":", port_name>>

----------------------------------------------------------------------------
(* graph.py: the optimizer                                                  *)

\* connections_by_target / connections_by_source: the connections whose
\* 'target' (resp. whole 'source' string) equals the key, in list order
connections_by_target(conns, id) == SelectSeq(conns, LAMBDA c : c.target = id)
connections_by_source(conns, id) == SelectSeq(conns, LAMBDA c : c.source = <<id>>)

\* variable_groups: the non-empty labels of the variable nodes, in order of
\* first appearance (dict insertion order)
RECURSIVE GroupLabels(_, _)
GroupLabels(nodes, seen) ==
    IF nodes = <<>> THEN <<>>
    ELSE LET n == Head(nodes) IN
         IF n.type = "variable" /\ n.label # "" /\ n.label \notin seen
         THEN <<n.label>> \o GroupLabels(Tail(nodes), seen \cup {n.label})
         ELSE GroupLabels(Tail(nodes), seen)

GroupNodes(nodes, label) ==
    SelectSeq(nodes, LAMBDA n : n.type = "variable" /\ n.label = label)

\* one iteration of the loop over variable_groups: the pair
\* <<new connections, connections to remove>> this group contributes
GroupRewrite(ir, label) ==
    LET nodes    == GroupNodes(ir.nodes, label)
        writers  == SelectSeq(nodes, LAMBDA n : n.is_input)
        output_nodes == SelectSeq(nodes, LAMBDA n : ~n.is_input)
    IN  IF writers = <<>> \/ output_nodes = <<>>
        THEN <<(<<>>), (<<>>)>>
        ELSE LET input_node == Head(writers)
                 input_connections ==
                     connections_by_target(ir.connections, input_node.id)
                 outs(k) == connections_by_source(ir.connections, output_nodes[k].id)
                 newFor(k) ==
                     Flatten([i \in 1..Len(input_connections) |->
                        [j \in 1..Len(outs(k)) |->
                           [source      |-> input_connections[i].source,
                            target      |-> outs(k)[j].target,
                            targetInput |-> outs(k)[j].targetInput]]])
             IN <<Flatten([k \in 1..Len(output_nodes) |-> newFor(k)]),
                  Flatten([k \in 1..Len(output_nodes) |-> outs(k)])>>

\* process_variable_nodes: returns the caller's json_data, its 'connections'
\* replaced in place
process_variable_nodes(ir) ==
    LET labels == GroupLabels(ir.nodes, {})
        rw     == [g \in 1..Len(labels) |-> GroupRewrite(ir, labels[g])]
        new_connections == Flatten([g \in 1..Len(labels) |-> rw[g][1]])
        connections_to_remove == Flatten([g \in 1..Len(labels) |-> rw[g][2]])
        kept == SelectSeq(ir.connections,
                          LAMBDA c : c \notin Range(connections_to_remove))
    IN  [nodes |-> ir.nodes, connections |-> kept \o new_connections]

\* build_reverse_graph: target -> the sources wired to it
build_reverse_graph(ir, target) ==
    {c.source : c \in {d \in Range(ir.connections) : d.target = target}}

\* find_reachable_nodes: the worklist loop over a deque
RECURSIVE find_reachable_nodes(_, _, _)
find_reachable_nodes(ir, queue, visited) ==
    IF queue = <<>> THEN visited
    ELSE LET node_id == Head(queue) IN
         IF node_id \in visited
         THEN find_reachable_nodes(ir, Tail(queue), visited)
         ELSE LET deps == {extract_node_id_from_source(s) :
                              s \in build_reverse_graph(ir, node_id)}
                  fresh == deps \ (visited \cup {node_id})
              IN find_reachable_nodes(ir, Tail(queue) \o SetToSeq(fresh),
                                      visited \cup {node_id})

\* the retained id set of optimize_graph
used_nodes(ir) ==
    LET output_nodes == {n.id : n \in {m \in Range(ir.nodes) : m.type = "out"}}
        input_nodes  == {n.id : n \in {m \in Range(ir.nodes) : m.type = "in"}}
        sources == {extract_node_id_from_source(c.source) : c \in Range(ir.connections)}
    IN  find_reachable_nodes(ir, SetToSeq(output_nodes), {})
            \cup sources \cup input_nodes

DeadCodeElimination(ir) ==
    LET used == used_nodes(ir) IN
    [nodes       |-> SelectSeq(ir.nodes, LAMBDA n : n.id \in used),
     connections |-> SelectSeq(ir.connections,
                        LAMBDA c : c.target \in used
                                   /\ extract_node_id_from_source(c.source) \in used)]

optimize_graph(ir) == DeadCodeElimination(process_variable_nodes(ir))

----------------------------------------------------------------------------
(* graph.py: class Graph                                                    *)

\* Node(...) with the output ports Graph.__init__ gives it
MakeNode(node_data) ==
    [id    |-> node_data.id,
     uid   |-> node_data.uid,
     type  |-> node_data.type,
     output_ports |->
         IF node_data.has_ports THEN node_data.output_ports
         ELSE IF node_data.type \in {"compute", "function", "variable"}
              THEN <<"default">>
              ELSE <<>>]

\* self.nodes[node.id] = node: a dict keeps a key's first position and its
\* last value
RECURSIVE NodesPut(_, _)
NodesPut(dict, node) ==
    IF dict = <<>> THEN <<node>>
    ELSE IF Head(dict).id = node.id THEN <<node>> \o Tail(dict)
    ELSE <<Head(dict)>> \o NodesPut(Tail(dict), node)

RECURSIVE BuildNodes(_, _)
BuildNodes(node_list, dict) ==
    IF node_list = <<>> THEN dict
    ELSE BuildNodes(Tail(node_list), NodesPut(dict, MakeNode(Head(node_list))))

NodeIds(nodes) == {nodes[i].id : i \in 1..Len(nodes)}
NodeById(nodes, id) == nodes[CHOOSE i \in 1..Len(nodes) : nodes[i].id = id]

\* self.connections[target][input_slot] = source, as the ordered list of
\* <<target, slot, source>> entries in the dicts' iteration order
RECURSIVE SlotPut(_, _, _)
SlotPut(inputs, slot, source) ==
    IF inputs = <<>> THEN <<[slot |-> slot, source |-> source]>>
    ELSE IF Head(inputs).slot = slot
         THEN <<[slot |-> slot, source |-> source]>> \o Tail(inputs)
         ELSE <<Head(inputs)>> \o SlotPut(Tail(inputs), slot, source)

RECURSIVE ConnectionsPut(_, _)
ConnectionsPut(dict, conn) ==
    IF dict = <<>>
    THEN <<[target |-> conn.target,
            inputs |-> SlotPut(<<>>, conn.targetInput, conn.source)]>>
    ELSE IF Head(dict).target = conn.target
         THEN <<[target |-> conn.target,
                 inputs |-> SlotPut(Head(dict).inputs, conn.targetInput, conn.source)]>>
              \o Tail(dict)
         ELSE <<Head(dict)>> \o ConnectionsPut(Tail(dict), conn)

RECURSIVE BuildConnections(_, _)
BuildConnections(conn_list, dict) ==
    IF conn_list = <<>> THEN dict
    ELSE BuildConnections(Tail(conn_list), ConnectionsPut(dict, Head(conn_list)))

\* graph.connections.get(node_id, {}): the node's slot -> source entries
get_node_inputs(connections, node_id) ==
    IF \E i \in 1..Len(connections) : connections[i].target = node_id
    THEN connections[CHOOSE i \in 1..Len(connections) :
                        connections[i].target = node_id].inputs
    ELSE <<>>

\* the <<source node id, target>> pairs the dependency graph is built from,
\* in the order the two nested loops of _topological_sort visit them
DependencyEdges(connections) ==
    Flatten([i \in 1..Len(connections) |->
        [j \in 1..Len(connections[i].inputs) |->
            [source |-> split_port_id(connections[i].inputs[j].source)[1],
             target |-> connections[i].target]]])

\* in_degree[target_id] += 1 raises KeyError for a target that is no node
SortRaisesKeyError(nodes, connections) ==
    \E e \in Range(DependencyEdges(connections)) :
        e.source \in NodeIds(nodes) /\ e.target \notin NodeIds(nodes)

\* the inner loop of Kahn's algorithm over graph[node_id]
RECURSIVE RelaxNeighbors(_, _, _)
RelaxNeighbors(neighbors, in_degree, queue) ==
    IF neighbors = <<>> THEN <<in_degree, queue>>
    ELSE LET n  == Head(neighbors)
             d  == in_degree[n] - 1
         IN RelaxNeighbors(Tail(neighbors), [in_degree EXCEPT ![n] = d],
                           IF d = 0 THEN Append(queue, n) ELSE queue)

RECURSIVE Kahn(_, _, _, _)
Kahn(edges, queue, in_degree, sorted_order) ==
    IF queue = <<>> THEN sorted_order
    ELSE LET node_id   == Head(queue)
             neighbors == SelectSeq(edges, LAMBDA e : e.source = node_id)
             step      == RelaxNeighbors([k \in 1..Len(neighbors) |-> neighbors[k].target],
                                         in_degree, Tail(queue))
         IN Kahn(edges, step[2], step[1], Append(sorted_order, node_id))

\* "Добавляем оставшиеся ноды в конец": the nodes Kahn's algorithm left
\* out, appended in declaration order
AppendRemaining(nodes, sorted_order) ==
    sorted_order \o
    SelectSeq([i \in 1..Len(nodes) |-> nodes[i].id],
              LAMBDA id : id \notin Range(sorted_order))

\* what Kahn's algorithm alone schedules (before the len() comparison)
KahnOrder(nodes, connections) ==
    LET ids   == [i \in 1..Len(nodes) |-> nodes[i].id]
        edges == SelectSeq(DependencyEdges(connections),
                           LAMBDA e : e.source \in NodeIds(nodes))
        in_degree == [id \in NodeIds(nodes) |->
                        Cardinality({k \in 1..Len(edges) : edges[k].target = id})]
        queue == SelectSeq(ids, LAMBDA id : in_degree[id] = 0)
    IN  Kahn(edges, queue, in_degree, <<>>)

_topological_sort(nodes, connections) ==
    LET sorted_order == KahnOrder(nodes, connections) IN
    IF Len(sorted_order) # Len(nodes)
    THEN AppendRemaining(nodes, sorted_order)
    ELSE sorted_order

\* _build_port_mapping: per node the <<port name, full port id>> entries
_build_port_mapping(node) ==
    IF node.output_ports # <<>>
    THEN [k \in 1..Len(node.output_ports) |->
            [name |-> node.output_ports[k],
             full |-> get_port_id(node.id, node.output_ports[k])]]
    ELSE IF node.type = "out" THEN <<>>
    ELSE <<[name |-> "default", full |-> <<node.id>>]>>

\* Graph.__init__ up to and including the attributes the compiler reads
MakeGraph(ir) ==
    LET opt   == optimize_graph(ir)
        nodes == BuildNodes(opt.nodes, <<>>)
        connections == BuildConnections(opt.connections, <<>>)
    IN  [json_data   |-> opt,
         nodes       |-> nodes,
         connections |-> connections,
         sort        |-> _topological_sort(nodes, connections),
         input_ids   |-> SelectSeq([i \in 1..Len(nodes) |-> nodes[i].id],
                            LAMBDA id : NodeById(nodes, id).type = "in"),
         output_ids  |-> SelectSeq([i \in 1..Len(nodes) |-> nodes[i].id],
                            LAMBDA id : NodeById(nodes, id).type = "out")]

GraphRaises(ir) ==
    LET opt == optimize_graph(ir) IN
    SortRaisesKeyError(BuildNodes(opt.nodes, <<>>),
                       BuildConnections(opt.connections, <<>>))

----------------------------------------------------------------------------
(* demo.py: the node function registry (nodes_pool)                         *)

NodesPoolUids == {"add", "split", "multiply"}

Has(f, k) == k \in DOMAIN f

\* A node function's outcome: it raises (a missing key in node_inputs), it
\* returns one value, or it returns a dict port name -> value
Raised == [kind |-> "raise", value |-> 0, items |-> <<>>]
Single(v) == [kind |-> "value", value |-> v, items |-> <<>>]
Mapping(m) == [kind |-> "dict", value |-> 0, items |-> m]

add_node(node_inputs) ==
    IF Has(node_inputs, "a") /\ Has(node_inputs, "b")
    THEN Single(node_inputs["a"] + node_inputs["b"])
    ELSE Raised

split_node(node_inputs) ==
    IF Has(node_inputs, "x")
    THEN Mapping([p \in {"double", "square"} |->
                    IF p = "double" THEN node_inputs["x"] * 2
                    ELSE node_inputs["x"] * node_inputs["x"]])
    ELSE Raised

multiply_node(node_inputs) ==
    IF Has(node_inputs, "x") /\ Has(node_inputs, "y")
    THEN Single(node_inputs["x"] * node_inputs["y"])
    ELSE Raised

nodes_pool(uid, node_inputs) ==
    CASE uid = "add"      -> add_node(node_inputs)
      [] uid = "split"    -> split_node(node_inputs)
      [] uid = "multiply" -> multiply_node(node_inputs)

----------------------------------------------------------------------------
(* compiler.py                                                              *)

\* _compile_nodes raises KeyError for a node that is neither 'in' nor 'out'
\* and whose uid is not a key of nodes_pool
CompileRaises(g) ==
    \E n \in Range(g.nodes) : n.type \notin {"in", "out"} /\ n.uid \notin NodesPoolUids

\* compile(): node_list, one (node_id, node, input_sources) per scheduled node
CompileGraph(g) ==
    [node_list  |-> [k \in 1..Len(g.sort) |->
                       [node_id |-> g.sort[k],
                        node    |-> NodeById(g.nodes, g.sort[k]),
                        input_sources |-> get_node_inputs(g.connections, g.sort[k]),
                        port_mapping  |-> _build_port_mapping(NodeById(g.nodes, g.sort[k]))]],
     input_ids  |-> g.input_ids,
     output_ids |-> g.output_ids]

\* dict update
Put(f, k, v) == [x \in DOMAIN f \cup {k} |-> IF x = k THEN v ELSE f[x]]

\* results.get(source_id)
Get(results, source_id) == IF Has(results, source_id) THEN Some(results[source_id]) ELSE None

\* str.endswith
EndsWith(s, suffix) ==
    Len(s) >= Len(suffix) /\ SubSeq(s, Len(s) - Len(suffix) + 1, Len(s)) = suffix

\* create_input_node_func.input_func: the value, or None when the bundle
\* has no value for uid (the caller raises KeyError)
input_func(node, input_values) ==
    LET uid == IF node.uid # "" THEN node.uid ELSE node.id IN
    Get(input_values, uid)

\* create_output_node_func.output_func
output_func(input_sources, results) ==
    IF Len(input_sources) = 1
    THEN [single |-> TRUE, value |-> Get(results, input_sources[1].source),
          items |-> <<>>]
    ELSE [single |-> FALSE, value |-> None,
          items |-> [slot \in {input_sources[k].slot : k \in 1..Len(input_sources)} |->
                       Get(results,
                           input_sources[CHOOSE k \in 1..Len(input_sources) :
                                            input_sources[k].slot = slot].source)]]

\* the fallback scan of computation_func over the source node's ports:
\* the first registered port id that is in port_results decides
RECURSIVE ScanPorts(_, _, _, _)
ScanPorts(ports, node_id, port_name, port_results) ==
    IF ports = <<>> THEN None
    ELSE LET port_full_id == Head(ports).full IN
         IF Has(port_results, port_full_id)
            /\ port_name # None /\ port_name[1] # <<>>
            /\ EndsWith(port_full_id, <<":">> \o port_name[1])
         THEN Some(port_results[port_full_id])
         ELSE IF Has(port_results, port_full_id)
                 /\ (port_name = None \/ port_name[1] = <<>>)
                 /\ port_full_id = <<node_id>>
         THEN Some(port_results[port_full_id])
         ELSE ScanPorts(Tail(ports), node_id, port_name, port_results)

\* the value computation_func resolves for one input slot, or None
ResolveInput(c, source_id, port_results) ==
    IF Has(port_results, source_id) THEN Some(port_results[source_id])
    ELSE LET sp == split_port_id(source_id)
             owners == {k \in 1..Len(c.node_list) : c.node_list[k].node_id = sp[1]}
         IN  IF owners = {} THEN None
             ELSE ScanPorts(c.node_list[CHOOSE k \in owners : TRUE].port_mapping,
                            sp[1], sp[2], port_results)

\* computation_func: collect the inputs, call the node function
computation_func(c, entry, port_results) ==
    LET src(key) == entry.input_sources[CHOOSE k \in 1..Len(entry.input_sources) :
                                           entry.input_sources[k].slot = key].source
        keys   == {entry.input_sources[k].slot : k \in 1..Len(entry.input_sources)}
        found  == {key \in keys : ResolveInput(c, src(key), port_results) # None}
        inputs == [key \in found |-> ResolveInput(c, src(key), port_results)[1]]
    IN  nodes_pool(entry.node.uid, inputs)

\* the port id a single (non-dict) result is stored under
SinglePortId(node) ==
    IF node.output_ports # <<>>
    THEN get_port_id(node.id, node.output_ports[1])
    ELSE <<node.id>>

RECURSIVE PutAll(_, _, _, _)
PutAll(port_results, node_id, items, names) ==
    IF names = {} THEN port_results
    ELSE LET p == CHOOSE q \in names : TRUE IN
         PutAll(Put(port_results, get_port_id(node_id, p), items[p]),
                node_id, items, names \ {p})

\* One iteration of calculator's loop on call record call: the call record
\* after node_list[call.i] ran (status "failed" when it raised)
StepCall(c, call) ==
    LET entry == c.node_list[call.i]
        node  == entry.node
        last  == call.i = Len(c.node_list)
        done(r) == [r EXCEPT !.i = call.i + 1,
                             !.status = IF last THEN "returned" ELSE "running"]
    IN
    IF node.type = "in"
    THEN LET value == input_func(node, call.input_values) IN
         IF value = None
         THEN [call EXCEPT !.status = "failed", !.error = "KeyError"]
         ELSE LET default_port ==
                      IF \E k \in 1..Len(entry.port_mapping) :
                             entry.port_mapping[k].name = "default"
                      THEN get_port_id(node.id, "default") ELSE <<node.id>>
                  pr1 == Put(call.port_results, default_port, value[1])
              IN done([call EXCEPT !.port_results = Put(pr1, SinglePortId(node), value[1])])
    ELSE IF node.type = "out"
    THEN done([call EXCEPT !.outputs =
                 Put(call.outputs, IF node.uid # "" THEN node.uid ELSE node.id,
                     output_func(entry.input_sources, call.port_results))])
    ELSE LET result == computation_func(c, entry, call.port_results) IN
         IF result.kind = "raise"
         THEN [call EXCEPT !.status = "failed", !.error = "RuntimeError"]
         ELSE IF result.kind = "dict"
         THEN done([call EXCEPT !.port_results =
                      PutAll(call.port_results, node.id, result.items, DOMAIN result.items)])
         ELSE done([call EXCEPT !.port_results =
                      Put(call.port_results, SinglePortId(node), result.value)])

\* the locals calculator() starts with
NewCall(c, input_values) ==
    [input_values |-> input_values,
     i            |-> 1,
     port_results |-> <<>>,
     outputs      |-> <<>>,
     status       |-> IF c.node_list = <<>> THEN "returned" ELSE "running",
     error        |-> ""]

\* before the first execute() call there are no locals
NoCall ==
    [input_values |-> <<>>, i |-> 0, port_results |-> <<>>, outputs |-> <<>>,
     status |-> "idle", error |-> ""]

\* calculator() run to its end on its own
RECURSIVE RunCall(_, _)
RunCall(c, call) ==
    IF call.status # "running" THEN call ELSE RunCall(c, StepCall(c, call))

execute(c, input_values) == RunCall(c, NewCall(c, input_values))

----------------------------------------------------------------------------
(* The IRs and input bundles the model is run on                            *)

MaxConns == 3
MaxVarConns == 4
MaxCondConns == 4
InputValues == {2, 3}

NodeData(id, type, uid) ==
    [id |-> id, type |-> type, uid |-> uid, label |-> "", is_input |-> FALSE,
     has_ports |-> FALSE, output_ports |-> <<>>]

VariableData(id, label, is_input) ==
    [id |-> id, type |-> "variable", uid |-> "", label |-> label,
     is_input |-> is_input, has_ports |-> FALSE, output_ports |-> <<>>]

PortsData(id, type, uid, ports) ==
    [id |-> id, type |-> type, uid |-> uid, label |-> "", is_input |-> FALSE,
     has_ports |-> TRUE, output_ports |-> ports]

Connection(source, target, targetInput) ==
    [source |-> source, target |-> target, targetInput |-> targetInput]

\* every wire string that names node n: "n" and "n:port" per declared port
WireForms(n) == {<<n.id>>} \cup {get_port_id(n.id, n.output_ports[k]) :
                                    k \in 1..Len(n.output_ports)}

\* the connections that wire one of sources to one of the <<target, slot>>
\* pairs of slots
Wires(sources, slots) == {Connection(s, t[1], t[2]) : s \in sources, t \in slots}

ConnectionLists(W, max) == UNION {[1..k -> W] : k \in 0..max}

\* the demo's adder, with its two inputs and its output
AddNodes == <<NodeData("a", "in", "a"), NodeData("add", "compute", "add"),
              NodeData("b", "in", "b"), NodeData("result", "out", "result")>>

AddWires == Wires({<<"a">>, <<"b">>, <<"add">>},
                  {"add", "result"} \X {"a", "b"})

\* the demo's splitter with its two declared ports, one input, two outputs
SplitNodes == <<NodeData("od", "out", "double"), NodeData("x", "in", "x"),
                PortsData("split", "compute", "split", <<"double", "square">>),
                NodeData("os", "out", "square")>>

SplitWires == Wires({<<"x">>} \cup WireForms(MakeNode(SplitNodes[3])),
                    {<<"split", "x">>, <<"split", "y">>, <<"od", "x">>, <<"os", "x">>})

\* graphs for repeated calls: an output declared before two inputs, a
\* compute node that is never wired an input (its function raises)
CallNodes == <<NodeData("o", "out", "o"), NodeData("c", "compute", "add"),
               NodeData("y", "in", "y"), NodeData("x", "in", "x")>>

CallWires == Wires({<<"x">>, <<"y">>, <<"c">>}, {"o", "x", "y"} \X {"a"})

\* graphs with one variable group: a writer and two readers labelled "L"
\* between an input, a compute node and two outputs; the wires feed the
\* writer, leave the readers, join the other nodes, and a few touch the
\* variable nodes the other way round (out of the writer, into a reader)
VarNodes == <<NodeData("x", "in", "x"), NodeData("c", "compute", "add"),
              VariableData("w", "L", TRUE), VariableData("r1", "L", FALSE),
              VariableData("r2", "L", FALSE),
              NodeData("o1", "out", "o1"), NodeData("o2", "out", "o2")>>

VarWires ==
    Wires({<<"x">>, <<"c">>}, {<<"w", "a">>})
    \cup Wires({<<"r1">>, <<"r2">>}, {<<"o1", "a">>, <<"o2", "a">>, <<"o2", "b">>})
    \cup Wires({<<"x">>}, {<<"c", "a">>})
    \cup Wires({<<"c">>}, {<<"o1", "b">>, <<"r1", "a">>})
    \cup Wires({<<"w">>}, {<<"o1", "b">>})

\* graphs for the optimizer and the scheduler: live and dead compute nodes,
\* a variable reader without writer, an id ("ghost") no node declares
GraphNodes == <<NodeData("a", "in", "a"), NodeData("A", "compute", "add"),
                NodeData("B", "compute", "add"), VariableData("v", "L", FALSE),
                NodeData("o", "out", "o")>>

GraphWires == Wires({<<"a">>, <<"A">>, <<"B">>, <<"v">>, <<"o">>, <<"ghost">>},
                    {"a", "A", "B", "v", "o", "ghost"} \X {"a"})

\* IRs the spec calls malformed: the id "n" declared twice (a compute node,
\* then an output), or a connection whose target ("ghost") no node declares
DupNodes == <<NodeData("a", "in", "a"), NodeData("n", "compute", "add"),
              NodeData("n", "out", "n"), NodeData("o", "out", "o")>>

DanglingNodes == <<NodeData("a", "in", "a"), NodeData("n", "compute", "add"),
                   NodeData("o", "out", "o")>>

MalformedWires == Wires({<<"a">>, <<"n">>, <<"ghost">>}, {"n", "o", "ghost"} \X {"a"})

\* graphs for concurrent calls: the adder wired through its default port,
\* and the inputs wired straight to the two slots of the output
ConcurrentNodes == <<NodeData("x", "in", "x"), NodeData("y", "in", "y"),
                     NodeData("c", "compute", "add"), NodeData("o", "out", "o")>>

ConcurrentWires ==
    Wires({<<"x">>}, {<<"c", "a">>, <<"o", "a">>})
    \cup Wires({<<"y">>}, {<<"c", "b">>, <<"o", "b">>})
    \cup Wires({get_port_id("c", "default")}, {<<"o", "a">>})

\* the call sites that call execute() on one Compiled Program concurrently
CallSites == {1, 2}

\* graphs with a conditional node: type 'if', fed a mask and the values of
\* its two branches, read by an output; the node carries no uid, or the uid
\* of a registered function
CondNodes(uid) == <<NodeData("m", "in", "m"), NodeData("t", "in", "t"),
                    NodeData("f", "in", "f"), NodeData("k", "if", uid),
                    NodeData("o", "out", "o")>>

CondWires ==
    Wires({<<"m">>}, {<<"k", "cond">>})
    \cup Wires({<<"t">>}, {<<"k", "true">>, <<"o", "a">>})
    \cup Wires({<<"f">>}, {<<"k", "false">>})
    \cup Wires({<<"k">>}, {<<"o", "a">>})

\* the bundles execute() is called with: any values for any of the uids
Bundles(uids) == UNION {[S -> InputValues] : S \in SUBSET uids}

InitWith(nodes, lists) ==
    /\ \E cs \in lists : json_data = [nodes |-> nodes, connections |-> cs]
    /\ authored = json_data
    /\ pc = "ir"
    /\ graph = None
    /\ compiled = None
    /\ frame = NoCall
    /\ earlier_missing = FALSE
    /\ callers = [k \in CallSites |-> NoCall]

----------------------------------------------------------------------------
(* The operations                                                           *)

\* Graph(json_data): optimizes (rewriting the caller's connections in
\* place), builds nodes and connections, schedules
Build ==
    /\ pc = "ir"
    /\ json_data' = process_variable_nodes(json_data)
    /\ IF GraphRaises(json_data)
       THEN pc' = "build_error" /\ graph' = None
       ELSE pc' = "built" /\ graph' = MakeGraph(json_data)
    /\ UNCHANGED <<authored, compiled, frame, earlier_missing, callers>>

\* GraphCompiler(nodes_pool).compile(graph)
Compile ==
    /\ pc = "built"
    /\ IF CompileRaises(graph)
       THEN pc' = "compile_error" /\ compiled' = None
       ELSE pc' = "compiled" /\ compiled' = CompileGraph(graph)
    /\ UNCHANGED <<authored, json_data, graph, frame, earlier_missing, callers>>

InputUids(c) ==
    {LET n == c.node_list[k].node IN IF n.uid # "" THEN n.uid ELSE n.id :
        k \in {j \in 1..Len(c.node_list) : c.node_list[j].node.type = "in"}}

LacksInput(c, input_values) == \E u \in InputUids(c) : u \notin DOMAIN input_values

\* execute() with the two maps kept from the previous call instead of
\* allocated by the call
StartExecuteStale ==
    /\ pc = "compiled"
    /\ frame.status # "running"
    /\ \E input_values \in Bundles(InputUids(compiled)) :
          frame' = [NewCall(compiled, input_values) EXCEPT
                       !.port_results = frame.port_results,
                       !.outputs = frame.outputs]
    /\ earlier_missing' = (earlier_missing
                           \/ (frame.status = "failed"
                               /\ LacksInput(compiled, frame.input_values)))
    /\ UNCHANGED <<authored, json_data, pc, graph, compiled, callers>>

\* compiled.execute(input_values): calculator() allocates its maps
StartExecute ==
    /\ pc = "compiled"
    /\ frame.status # "running"
    /\ \E input_values \in Bundles(InputUids(compiled)) :
          frame' = NewCall(compiled, input_values)
    /\ earlier_missing' = (earlier_missing
                           \/ (frame.status = "failed"
                               /\ LacksInput(compiled, frame.input_values)))
    /\ UNCHANGED <<authored, json_data, pc, graph, compiled, callers>>

\* one iteration of calculator()'s loop; the last one returns outputs
Step ==
    /\ pc = "compiled"
    /\ frame.status = "running"
    /\ frame' = StepCall(compiled, frame)
    /\ UNCHANGED <<authored, json_data, pc, graph, compiled, earlier_missing, callers>>

\* call site k calls compiled.execute(input_values): the call's frame holds
\* the locals of calculator(), among them its own port_results and outputs
CallExecute ==
    /\ pc = "compiled"
    /\ \E k \in CallSites :
          /\ callers[k].status = "idle"
          /\ \E input_values \in Bundles(InputUids(compiled)) :
                callers' = [callers EXCEPT ![k] = NewCall(compiled, input_values)]
    /\ UNCHANGED <<authored, json_data, pc, graph, compiled, frame, earlier_missing>>

\* one iteration of calculator()'s loop in the call of some call site, with
\* every map of the loop body shared between the calls
CallStepShared ==
    /\ pc = "compiled"
    /\ \E k \in CallSites :
          /\ callers[k].status = "running"
          /\ LET other == CHOOSE j \in CallSites : j # k
                 mine  == [callers[k] EXCEPT
                              !.port_results =
                                  IF callers[other].status = "idle"
                                  THEN callers[k].port_results
                                  ELSE callers[other].port_results]
             IN  callers' = [callers EXCEPT ![k] = StepCall(compiled, mine)]
    /\ UNCHANGED <<authored, json_data, pc, graph, compiled, frame, earlier_missing>>

\* one iteration of calculator()'s loop in the call of some call site
CallStep ==
    /\ pc = "compiled"
    /\ \E k \in CallSites :
          /\ callers[k].status = "running"
          /\ callers' = [callers EXCEPT ![k] = StepCall(compiled, callers[k])]
    /\ UNCHANGED <<authored, json_data, pc, graph, compiled, frame, earlier_missing>>

Next == Build \/ Compile \/ StartExecute \/ Step

NextConcurrent == Build \/ Compile \/ CallExecute \/ CallStep

Init == \/ InitWith(AddNodes, ConnectionLists(AddWires, MaxConns))
        \/ InitWith(SplitNodes, ConnectionLists(SplitWires, MaxConns))

\* build, compile and execute the adder and splitter graphs
Spec == Init /\ [][Next]_vars

NextGraph == Build \/ Compile

InitGraph == InitWith(GraphNodes, ConnectionLists(GraphWires, MaxConns))

InitCalls == InitWith(CallNodes, ConnectionLists(CallWires, MaxConns))

\* build, compile and call repeatedly
SpecCalls == InitCalls /\ [][Next]_vars

InitVar == InitWith(VarNodes, ConnectionLists(VarWires, MaxVarConns))

\* build and compile the graphs with a variable group
SpecVar == InitVar /\ [][NextGraph]_vars

InitMalformed == \/ InitWith(DupNodes, ConnectionLists(MalformedWires, MaxConns))
                 \/ InitWith(DanglingNodes, ConnectionLists(MalformedWires, MaxConns))

\* build and compile IRs with a repeated id or a dangling target
SpecMalformed == InitMalformed /\ [][NextGraph]_vars

InitConcurrent == InitWith(ConcurrentNodes, ConnectionLists(ConcurrentWires, MaxConns))

\* build, compile, and execute from two call sites whose steps interleave
SpecConcurrent == InitConcurrent /\ [][NextConcurrent]_vars

InitCond == \/ InitWith(CondNodes(""), ConnectionLists(CondWires, MaxCondConns))
            \/ InitWith(CondNodes("add"), ConnectionLists(CondWires, MaxCondConns))

\* build, compile and execute the graphs with a conditional node
SpecCond == InitCond /\ [][Next]_vars

\* build and compile the optimizer/scheduler graphs
SpecGraph == InitGraph /\ [][NextGraph]_vars
----------------------------------------------------------------------------
(* Properties                                                               *)

HasGraph == pc \in {"built", "compiled", "compile_error"}

Position(sort, id) == CHOOSE i \in 1..Len(sort) : sort[i] = id

\* Kahn's algorithm scheduled every node: the connections hold no cycle
Acyclic(g) == Len(KahnOrder(g.nodes, g.connections)) = Len(g.nodes)

\* C1: in every Graph built from IR, for every connection (s -> t) kept in
\* the optimized graph between two of its nodes, s stands strictly before t
\* in Graph.sort.
C1_SourceBeforeTarget ==
    HasGraph =>
        \A c \in Range(graph.json_data.connections) :
            LET s == extract_node_id_from_source(c.source) IN
            (s \in NodeIds(graph.nodes) /\ c.target \in NodeIds(graph.nodes))
                => Position(graph.sort, s) < Position(graph.sort, c.target)

\* C2: when Kahn's algorithm schedules fewer nodes than the graph has,
\* building fails: no Graph exists whose schedule had the unscheduled nodes
\* appended.
C2_CycleIsFatal ==
    HasGraph => Len(KahnOrder(graph.nodes, graph.connections)) = Len(graph.nodes)

\* the compute nodes of the compiled program that declare no output ports
PortlessComputes ==
    {k \in 1..Len(compiled.node_list) :
        /\ compiled.node_list[k].node.type = "compute"
        /\ ~NodeById(graph.json_data.nodes, compiled.node_list[k].node_id).has_ports}

\* the <<consumer entry, slot entry>> pairs wired to wire string source
Consumers(source) ==
    {<<k, j>> \in (1..Len(compiled.node_list)) \X (1..MaxConns) :
        /\ j <= Len(compiled.node_list[k].input_sources)
        /\ compiled.node_list[k].input_sources[j].source = source}

\* what the consumer node_list[k] is handed for a slot wired to source
Received(k, source) ==
    IF compiled.node_list[k].node.type = "out"
    THEN Get(frame.port_results, source)
    ELSE ResolveInput(compiled, source, frame.port_results)

\* C3: in an acyclic graph, once a compute node without declared output
\* ports has returned its single value, every consumer wired to it by its
\* plain node id is handed exactly that value.
C3_PlainIdDelivers ==
    (pc = "compiled" /\ Acyclic(graph)) =>
        \A p \in PortlessComputes :
            LET n == compiled.node_list[p].node IN
            Has(frame.port_results, SinglePortId(n)) =>
                \A kj \in Consumers(<<n.id>>) :
                    Received(kj[1], <<n.id>>) = Some(frame.port_results[SinglePortId(n)])

\* C3, the end-to-end case: a, b -> add -> result with {a: 2, b: 3} returns
\* {result: 5}.
C3_AdderReturnsFive ==
    (/\ pc = "compiled"
     /\ graph.json_data.connections =
            <<Connection(<<"a">>, "add", "a"), Connection(<<"b">>, "add", "b"),
              Connection(<<"add">>, "result", "a")>>
     /\ frame.status = "returned"
     /\ Has(frame.input_values, "a") /\ Has(frame.input_values, "b")
     /\ frame.input_values["a"] = 2 /\ frame.input_values["b"] = 3)
    => frame.outputs["result"].value = Some(5)

\* the compute nodes that declare several output ports
MultiPortComputes ==
    {k \in 1..Len(compiled.node_list) :
        /\ compiled.node_list[k].node.type = "compute"
        /\ Len(compiled.node_list[k].node.output_ports) > 1}

\* C4: when a call has returned and a compute node with several declared
\* ports returned a mapping, every output node wired to "node:port" holds
\* exactly the value returned for that port.
C4_PortDelivers ==
    (pc = "compiled" /\ frame.status = "returned") =>
        \A p \in MultiPortComputes :
            LET n == compiled.node_list[p].node IN
            \A q \in Range(n.output_ports) :
                Has(frame.port_results, get_port_id(n.id, q)) =>
                    \A kj \in Consumers(get_port_id(n.id, q)) :
                        LET e == compiled.node_list[kj[1]] IN
                        (e.node.type = "out" /\ Len(e.input_sources) = 1) =>
                            frame.outputs[e.node.uid].value
                                = Some(frame.port_results[get_port_id(n.id, q)])

\* C6: a returned bundle holds no unresolved slot: no None for an output
\* node's single slot, none among the entries of a multi-slot output.
C6_NoUnresolvedOutput ==
    (pc = "compiled" /\ frame.status = "returned") =>
        \A u \in DOMAIN frame.outputs :
            /\ frame.outputs[u].single => frame.outputs[u].value # None
            /\ \A slot \in DOMAIN frame.outputs[u].items :
                  frame.outputs[u].items[slot] # None
Finished == pc = "compiled" /\ frame.status \in {"returned", "failed"}

\* C5 as stated: a call whose bundle lacks an input uid fails with the
\* missing-input error, and a later call with a complete bundle succeeds
\* with the outputs of that call run alone.
C5_MissingInputThenSuccess ==
    /\ (Finished /\ LacksInput(compiled, frame.input_values))
          => (frame.status = "failed" /\ frame.error = "KeyError")
    /\ (Finished /\ earlier_missing /\ ~LacksInput(compiled, frame.input_values))
          => (/\ frame.status = "returned"
              /\ frame.outputs = execute(compiled, frame.input_values).outputs)

\* C5 amended: a call whose bundle lacks an input uid returns no bundle; it
\* fails at an Input node with the missing-input error unless the function
\* of a node scheduled before raised first; and a later call with a
\* complete bundle ends as that call ends when run alone: the same outputs
\* returned, or the same failure.
C5_MissingInputLeavesNoTrace ==
    /\ (Finished /\ LacksInput(compiled, frame.input_values))
          => /\ frame.status = "failed"
             /\ LET n == compiled.node_list[frame.i].node IN
                IF n.type = "in"
                THEN frame.error = "KeyError"
                     /\ (IF n.uid # "" THEN n.uid ELSE n.id) \notin DOMAIN frame.input_values
                ELSE frame.error = "RuntimeError"
    /\ (Finished /\ earlier_missing /\ ~LacksInput(compiled, frame.input_values))
          => LET alone == execute(compiled, frame.input_values) IN
             /\ frame.status = alone.status
             /\ frame.error = alone.error
             /\ frame.status = "returned" => frame.outputs = alone.outputs

\* a complete call returned its bundle after an earlier call had failed for
\* a missing input
C5_Witness ==
    /\ Finished /\ earlier_missing
    /\ ~LacksInput(compiled, frame.input_values)
    /\ frame.status = "returned"
    /\ frame.outputs # <<>>

SameSets(g, h) ==
    /\ Range(g.nodes) = Range(h.nodes)
    /\ Range(g.connections) = Range(h.connections)

VariableIds(ir) == {n.id : n \in {m \in Range(ir.nodes) : m.type = "variable"}}

Touches(c, ids) == c.target \in ids \/ extract_node_id_from_source(c.source) \in ids

\* the group of authored: its writer is fed by exactly one connection from
\* a node that is no variable, and each reader has a target that is none
OneWriterTwoReaders(ir) ==
    LET feeds == {i \in 1..Len(ir.connections) : ir.connections[i].target = "w"} IN
    /\ Cardinality(feeds) = 1
    /\ \A i \in feeds :
          extract_node_id_from_source(ir.connections[i].source) \notin VariableIds(ir)
    /\ \A r \in {"r1", "r2"} :
          \E c \in Range(ir.connections) :
              c.source = <<r>> /\ c.target \notin VariableIds(ir)

\* the same graph without the variable group: the writer's source wired to
\* each reader's target on the reader's slot
DirectGraph(ir) ==
    LET feed  == ir.connections[CHOOSE i \in 1..Len(ir.connections) :
                                   ir.connections[i].target = "w"]
        reads == SelectSeq(ir.connections,
                    LAMBDA c : c.source \in {<<"r1">>, <<"r2">>}
                               /\ c.target \notin VariableIds(ir))
    IN  [nodes |-> SelectSeq(ir.nodes, LAMBDA n : n.type # "variable"),
         connections |->
             SelectSeq(ir.connections, LAMBDA c : ~Touches(c, VariableIds(ir)))
             \o [k \in 1..Len(reads) |->
                   Connection(feed.source, reads[k].target, reads[k].targetInput)]]

\* C7: a graph with one writer (fed by one edge) and two readers sharing a
\* label optimizes to the node set and connection set of the graph that
\* wires the writer's source directly to the readers' targets.
C7_ElisionEquivalent ==
    (HasGraph /\ OneWriterTwoReaders(authored))
        => SameSets(graph.json_data, optimize_graph(DirectGraph(authored)))

\* C8: no node of type 'variable' is in the optimized node set or in the
\* schedule.
C8_NoVariableSurvives ==
    HasGraph =>
        /\ \A n \in Range(graph.json_data.nodes) : n.type # "variable"
        /\ \A id \in Range(graph.sort) : NodeById(graph.nodes, id).type # "variable"

\* C9: optimize_graph applied to its own result gives the same node set and
\* the same connection set.
C9_OptimizeIdempotent ==
    HasGraph => SameSets(optimize_graph(graph.json_data), graph.json_data)

\* C10: the source node of every retained connection is a retained node.
C10_SourcesAreNodes ==
    HasGraph =>
        \A c \in Range(graph.json_data.connections) :
            extract_node_id_from_source(c.source)
                \in {n.id : n \in Range(graph.json_data.nodes)}
\* a node id repeats, or a connection's target is no declared node
Malformed(ir) ==
    \/ \E i, j \in 1..Len(ir.nodes) : i # j /\ ir.nodes[i].id = ir.nodes[j].id
    \/ \E c \in Range(ir.connections) : c.target \notin {n.id : n \in Range(ir.nodes)}

\* C11: building a Graph from IR in which a node id repeats or a
\* connection's target is not declared fails: no Graph is produced.
C11_MalformedIsRejected ==
    (pc # "ir" /\ Malformed(authored)) => ~HasGraph

\* C14: after Graph(json_data) the caller's IR holds the same nodes and the
\* same connections as before the call.
C14_CallerIRUnchanged ==
    pc # "ir" => SameSets(json_data, authored)
\* the frame of a call run alone for n iterations of the loop (a frame's i
\* is the position of the iteration to run next, counted from 1)
RECURSIVE StepsAlone(_, _, _)
StepsAlone(c, call, n) ==
    IF n = 0 \/ call.status # "running" THEN call
    ELSE StepsAlone(c, StepCall(c, call), n - 1)

\* C12: whatever the interleaving of the two calls' steps, each call holds
\* at every step the port values and outputs it holds when run alone, and
\* ends as it ends alone: the same bundle returned, or the same failure.
C12_CallsAreIndependent ==
    pc = "compiled" =>
        \A k \in CallSites :
            /\ callers[k].status = "running"
                  => callers[k] = StepsAlone(compiled,
                                      NewCall(compiled, callers[k].input_values),
                                      callers[k].i - 1)
            /\ callers[k].status \in {"returned", "failed"}
                  => callers[k] = execute(compiled, callers[k].input_values)

\* both calls are under way on different bundles, each has written a port
\* value the other call has written differently, and one of them has
\* returned its bundle while the other is still running
C12_Witness ==
    /\ pc = "compiled"
    /\ callers[1].status = "returned"
    /\ \E u \in DOMAIN callers[1].outputs :
          callers[1].outputs[u].single /\ callers[1].outputs[u].value # None
    /\ callers[2].status = "running" /\ callers[2].i >= 2
    /\ callers[1].input_values # callers[2].input_values
    /\ \E p \in DOMAIN callers[1].port_results \cap DOMAIN callers[2].port_results :
          callers[1].port_results[p] # callers[2].port_results[p]
\* element-wise select on the one-element tensors of the model: the value
\* of the true branch where the mask is set, of the false branch elsewhere
select(mask, true_result, false_result) ==
    IF mask # 0 THEN true_result ELSE false_result

\* the conditional node k is in the graph with its three slots wired
ConditionalWired ==
    /\ HasGraph
    /\ "k" \in NodeIds(graph.nodes)
    /\ {e.slot : e \in Range(get_node_inputs(graph.connections, "k"))}
          = {"cond", "true", "false"}

\* the source wired to slot of the conditional node
SlotSource(slot) ==
    LET inputs == get_node_inputs(graph.connections, "k") IN
    inputs[CHOOSE i \in 1..Len(inputs) : inputs[i].slot = slot].source

\* C13: a graph with a conditional node compiles, and a call with a
\* complete bundle registers select(mask, true_result, false_result) as the
\* conditional node's output.
C13_ConditionalSelects ==
    ConditionalWired =>
        /\ pc # "compile_error"
        /\ (Finished /\ ~LacksInput(compiled, frame.input_values))
              => /\ frame.status = "returned"
                 /\ Get(frame.port_results, <<"k">>)
                       = Some(select(frame.port_results[SlotSource("cond")],
                                     frame.port_results[SlotSource("true")],
                                     frame.port_results[SlotSource("false")]))
====
